---- MODULE Spec2Model ----
(***************************************************************************)
(* VolatiSense (adarshalexbalmuchu/FX): FX volatility -> profitability     *)
(* and CVaR-constrained hedge optimisation.                                *)
(*                                                                         *)
(* Spec        the React dashboard: router, the pages that simulate a      *)
(*             load with setTimeout, the Optimizer page's mocked run.      *)
(* The quantitative core (paths.py, hedging.py, risk.py, optimizer.py,     *)
(* validation.py) is not among the sources; the specifications for it are  *)
(* modelled from the specification document and say so where defined.      *)
(***************************************************************************)
EXTENDS Integers, Sequences, FiniteSets, TLC

(***************************************************************************)
(* Bounds of the model.                                                    *)
(***************************************************************************)
\* pending setTimeout callbacks the model lets accumulate
MaxTimers == 2
\* length of the sample arrays (the page builds 5000 entries)
DataLen == 3

(***************************************************************************)
(* Generic helpers.                                                        *)
(***************************************************************************)
Min2(a, b) == IF a <= b THEN a ELSE b

RECURSIVE SeqSum(_)
SeqSum(s) == IF s = <<>> THEN 0 ELSE Head(s) + SeqSum(Tail(s))

\* Array.prototype.sort((a, b) => a - b): ascending, as an insertion sort
RECURSIVE InsertAsc(_, _)
InsertAsc(x, s) ==
  IF s = <<>> THEN <<x>>
  ELSE IF x <= Head(s) THEN <<x>> \o s
  ELSE <<Head(s)>> \o InsertAsc(x, Tail(s))

RECURSIVE SortAsc(_)
SortAsc(s) == IF s = <<>> THEN <<>> ELSE InsertAsc(Head(s), SortAsc(Tail(s)))

RemoveAt(s, i) == [k \in 1..(Len(s) - 1) |-> IF k < i THEN s[k] ELSE s[k + 1]]

\* (x * 100).toFixed(2) of the quotient num/den: hundredths of a percent,
\* rounded half up
PctFixed2(num, den) == (2 * 10000 * num + den) \div (2 * den)

\* 100 times the type-7 quantile of d at p percent: linear interpolation
\* between the order statistics next to position (n - 1) * p / 100
Percentile100(d, p) ==
  LET sorted == SortAsc(d)
      n == Len(d)
      lo == ((n - 1) * p) \div 100
      frac == ((n - 1) * p) % 100
  IN IF frac = 0 THEN 100 * sorted[lo + 1]
     ELSE 100 * sorted[lo + 1] + frac * (sorted[lo + 2] - sorted[lo + 1])

(***************************************************************************)
(* The dashboard: routes and page components.                              *)
(***************************************************************************)
Pages == {"dashboard", "distributions", "sensitivities", "attribution", "optimizer"}
\* the pages whose mount effect starts a simulated load
EffectPages == {"distributions", "sensitivities", "attribution"}
LoadingPages == EffectPages \cup {"optimizer"}

\* values the sample arrays are drawn from (stand-ins for the random floats)
SampleValues == {1, 2, 3}
Samples == [1..DataLen -> SampleValues]

\* the slider of the CVaR target: min 0.02, max 0.10, step 0.005, in 1e-4
CvarTargets == {200 + 50 * k : k \in 0..16}
DefaultCvarTarget == 500

\* FirmProfile, shares in percent; the first is the repository's reference
\* firm (README usage example)
ReferenceFirm ==
  [revenue_inr_q |-> 8500, cost_inr_q |-> 6800, assets_inr |-> 45000,
   export_share_theta |-> 68, foreign_cost_share_kappa |-> 18,
   pass_through_psi |-> 32]
Firms ==
  {ReferenceFirm,
   [revenue_inr_q |-> 1000, cost_inr_q |-> 900, assets_inr |-> 5000,
    export_share_theta |-> 50, foreign_cost_share_kappa |-> 50,
    pass_through_psi |-> 0]}

NoResult == [set |-> FALSE]
\* the object runOptimization stores, fractions in 1e-4
MockResult ==
  [set |-> TRUE,
   optimal_hedge_ratio |-> [forwards |-> 5200, options |-> 2800, natural |-> 2000],
   expected_npm |-> 1245, expected_roa |-> 1521, cvar_95 |-> 485,
   sharpe_ratio |-> 185]

NoRun == [started |-> FALSE]

\* Attribution's generateWaterfallData
waterfallData ==
  << [label |-> "Base Revenue",          value |-> 8500,  type |-> "base"],
     [label |-> "FX Revenue Impact",     value |-> -340,  type |-> "decrease"],
     [label |-> "Operating Revenue",     value |-> 8160,  type |-> "total"],
     [label |-> "Base Costs",            value |-> -6800, type |-> "decrease"],
     [label |-> "FX Cost Impact",        value |-> -122,  type |-> "decrease"],
     [label |-> "Operating Profit",      value |-> 1238,  type |-> "total"],
     [label |-> "Forward Hedge P&L",     value |-> 85,    type |-> "increase"],
     [label |-> "Option Hedge P&L",      value |-> 42,    type |-> "increase"],
     [label |-> "Natural Hedge Benefit", value |-> 28,    type |-> "increase"],
     [label |-> "Net Profit",            value |-> 1393,  type |-> "total"] >>

\* waterfallData.find(item => item.label === l)?.value || 0
FindValue(l) ==
  LET hits == {i \in 1..Len(waterfallData) : waterfallData[i].label = l}
  IN IF hits = {} THEN 0
     ELSE waterfallData[CHOOSE i \in hits : \A j \in hits : i <= j].value

AttributionAssets == 45000
netProfit == FindValue("Net Profit")
baseRevenue == FindValue("Base Revenue")

NoView == [shown |-> FALSE]
\* what the Attribution page puts in its summary cards
AttributionView ==
  [shown |-> TRUE,
   netProfit |-> netProfit,
   npm |-> PctFixed2(netProfit, baseRevenue),
   roa |-> PctFixed2(netProfit, AttributionAssets)]

VARIABLES
  route,              \* the page the router shows
  effectPending,      \* the mounted page's useEffect has not run yet
  timers,             \* pending setTimeout callbacks, oldest first
  loading,            \* each page's loading state
  npmData, roaData,   \* Distributions: the arrays in component state
  sampleNPM, sampleROA, \* Distributions: the arrays as the loader built them
  selectedMetric,     \* Distributions
  selectedHeatmap,    \* Sensitivities
  attrView,           \* Attribution: the summary cards on screen
  cvarTarget,         \* Optimizer: the slider
  optimizationResult, \* Optimizer
  pendingRun,         \* Optimizer: the request of the run in flight
  resultRun           \* Optimizer: the request the stored result answers

pageVars == <<route, effectPending, timers, loading, npmData, roaData, sampleNPM,
          sampleROA, selectedMetric, selectedHeatmap, attrView, cvarTarget,
          optimizationResult, pendingRun, resultRun>>

\* hooks/useDarkMode.ts: one mounted instance of the hook and what it touches
VARIABLES
  mounted,            \* the component using the hook is mounted
  isDark,             \* the hook's state
  rendered,           \* the isDark the last render closed over
  themeEffect,        \* the effect on [isDark] has not run since the last commit
  storedTheme,        \* localStorage.getItem('theme')
  classList,          \* document.documentElement.classList
  prefersDark,        \* matchMedia('(prefers-color-scheme: dark)').matches
  chosen,             \* the mode of the user's last toggle() or setIsDark(v)
  reloads             \* page reloads since that choice

themeVars == <<mounted, isDark, rendered, themeEffect, storedTheme, classList,
               prefersDark, chosen, reloads>>

\* components/MetricCard.tsx: one card, its props and what it renders
VARIABLES
  cardProps,          \* the props of the last render, or none before it
  cardView            \* the elements of the last render

cardVars == <<cardProps, cardView>>

\* lib/PlotlyTheme.ts: one call of applyPlotlyTheme
VARIABLES
  plotArgs,           \* the arguments of the last call, or none before it
  plotLayout          \* the layout it returned

plotVars == <<plotArgs, plotLayout>>

\* hooks/useDarkMode.ts used by several components at once
VARIABLES
  hooks               \* per component: the state of its instance of the hook

hookVars == <<hooks>>

\* run.sh (unnamed/part_011)
VARIABLES
  scriptPc,           \* the command the script is about to run
  setup,              \* which of backend/venv and frontend/node_modules exist
  trapSet,            \* trap cleanup SIGINT SIGTERM has run
  pendingSignal,      \* a signal delivered to the script, not yet acted on
  backend, frontend,  \* the server processes the script starts
  exitCode,           \* the status the script exited with, -1 while it runs
  BACKEND_PID, FRONTEND_PID \* the shell variables: set or empty

scriptVars == <<scriptPc, setup, trapSet, pendingSignal, backend, frontend, exitCode,
                BACKEND_PID, FRONTEND_PID>>

\* the components, libraries and scripts beside the pages and the hook
libVars == <<cardVars, plotVars, hookVars, scriptVars>>

frontVars == <<pageVars, themeVars, libVars>>

distVars == <<npmData, roaData, sampleNPM, sampleROA, selectedMetric>>
optVars == <<cvarTarget, optimizationResult, pendingRun, resultRun>>

(***************************************************************************)
(* The quantitative core: one call in progress.  Modelled from the         *)
(* specification document; the result records follow the declarations of   *)
(* frontend/src/types/index.ts.                                            *)
(***************************************************************************)
VARIABLES
  pc,                 \* where the call of the core stands
  firm,               \* FirmProfile of the request
  config,             \* SimulationConfig of the request
  fx_paths,           \* PathSet: n_paths rows of horizon_quarters rates
  draws,              \* simulate: the standard-normal draws behind the paths
  hedge_pnl,          \* HedgePnL
  profitability,      \* ProfitabilityMetrics: the cross-section analysed
  risk_metrics,       \* RiskMetrics
  cvar_target,        \* optimize: the tail-risk budget, percent
  objective,          \* optimize: maximize_npm or minimize_variance
  surface,            \* optimize: what the seeded pipeline yields per allocation
  attempts,           \* optimize: the multi-start attempts
  workspace,          \* optimize: PathSet and derived results per evaluation
  evaluations,        \* optimize: pipeline evaluations run so far
  overlapped,         \* optimize: two evaluations have been in flight at once
  result,             \* OptimizationResult
  error               \* the error kind the call failed with

reqVars == <<pc, firm, config>>
hedgeVars == <<fx_paths, draws, hedge_pnl>>
riskVars == <<profitability, risk_metrics>>
optimVars == <<cvar_target, objective, surface, attempts, workspace,
               evaluations, overlapped, result, error>>
coreVars == <<reqVars, hedgeVars, riskVars, optimVars>>

vars == <<frontVars, coreVars>>

None == [none |-> TRUE]

HedgeIdle == fx_paths = <<>> /\ draws = None /\ hedge_pnl = None
RiskIdle == profitability = None /\ risk_metrics = None
OptimIdle ==
  /\ cvar_target = 0
  /\ objective = "maximize_npm"
  /\ surface = <<>>
  /\ attempts = <<>>
  /\ workspace = <<>>
  /\ evaluations = 0
  /\ overlapped = FALSE
  /\ result = None
  /\ error = "none"

\* no call of the core is in progress
CoreIdle ==
  /\ pc = "idle"
  /\ firm = None
  /\ config = None
  /\ HedgeIdle
  /\ RiskIdle
  /\ OptimIdle

\* no card rendered
CardIdle == cardProps = None /\ cardView = None
PlotIdle == plotArgs = None /\ plotLayout = None
HooksIdle == hooks = None
\* run.sh not started
ScriptIdle ==
  /\ scriptPc = "idle"
  /\ setup = None
  /\ trapSet = FALSE
  /\ pendingSignal = "none"
  /\ backend = "none"
  /\ frontend = "none"
  /\ exitCode = -1
  /\ BACKEND_PID = FALSE
  /\ FRONTEND_PID = FALSE
LibIdle == CardIdle /\ PlotIdle /\ HooksIdle /\ ScriptIdle

\* localStorage.getItem returns null where nothing is stored
NoTheme == "null"
\* the page not loaded: nothing stored, the <html> element without classes
ThemeIdle ==
  /\ mounted = FALSE
  /\ isDark = FALSE
  /\ rendered = FALSE
  /\ themeEffect = FALSE
  /\ storedTheme = NoTheme
  /\ classList = {}
  /\ prefersDark = FALSE
  /\ chosen = "none"
  /\ reloads = 0

\* the dashboard before any route change or load
FrontIdle ==
  /\ route = "dashboard"
  /\ effectPending = FALSE
  /\ timers = <<>>
  /\ loading = [p \in LoadingPages |-> FALSE]
  /\ npmData = <<>>
  /\ roaData = <<>>
  /\ sampleNPM = <<>>
  /\ sampleROA = <<>>
  /\ selectedMetric = "npm"
  /\ selectedHeatmap = "theta_hedge"
  /\ attrView = NoView
  /\ cvarTarget = DefaultCvarTarget
  /\ optimizationResult = NoResult
  /\ pendingRun = NoRun
  /\ resultRun = NoRun

\* Distributions' render when not loading: the summary cards sort
\* currentData in place (the percentile table sorts a copy)
RenderSorted(isLoading, sel, data, which) ==
  IF ~isLoading /\ sel = which THEN SortAsc(data) ELSE data

Init == FrontIdle /\ ThemeIdle /\ LibIdle /\ CoreIdle

\* A route change: the old page unmounts (its state is dropped, its timers
\* keep running), the new page mounts with its useState defaults and renders.
Navigate(p) ==
  /\ ~effectPending
  /\ p # route
  /\ p \in EffectPages => Len(timers) < MaxTimers
  /\ route' = p
  /\ effectPending' = (p \in EffectPages)
  /\ timers' = [i \in 1..Len(timers) |->
                  IF timers[i].page = route
                  THEN [timers[i] EXCEPT !.live = FALSE] ELSE timers[i]]
  /\ loading' = [q \in LoadingPages |-> FALSE]
  /\ npmData' = <<>>
  /\ roaData' = <<>>
  /\ sampleNPM' = <<>>
  /\ sampleROA' = <<>>
  /\ selectedMetric' = "npm"
  /\ selectedHeatmap' = "theta_hedge"
  /\ attrView' = IF p = "attribution" THEN AttributionView ELSE NoView
  /\ cvarTarget' = DefaultCvarTarget
  /\ optimizationResult' = NoResult
  /\ pendingRun' = NoRun
  /\ resultRun' = NoRun
  /\ UNCHANGED <<coreVars, themeVars, libVars>>

\* useEffect(() => { load...Data() }, []): setLoading(true), setTimeout
MountEffect ==
  /\ effectPending
  /\ effectPending' = FALSE
  /\ loading' = [loading EXCEPT ![route] = TRUE]
  /\ timers' = Append(timers, [page |-> route, live |-> TRUE])
  /\ attrView' = NoView
  /\ UNCHANGED <<route, selectedHeatmap>>
  /\ UNCHANGED distVars
  /\ UNCHANGED optVars
  /\ UNCHANGED <<coreVars, themeVars, libVars>>

\* the mutant: a delay that never elapses
CanFireNever(i) == FALSE

\* a timer may fire once no older timer of the same page (same delay) waits
CanFire(i) ==
  /\ i \in 1..Len(timers)
  /\ \A j \in 1..(i - 1) : timers[j].page # timers[i].page

\* the callback of a component that has unmounted: its setState calls are
\* dropped
TimerFireStale(i) ==
  /\ CanFire(i)
  /\ ~timers[i].live
  /\ timers' = RemoveAt(timers, i)
  /\ UNCHANGED <<route, effectPending, loading, selectedHeatmap, attrView>>
  /\ UNCHANGED distVars
  /\ UNCHANGED optVars
  /\ UNCHANGED <<coreVars, themeVars, libVars>>

\* loadDistributionData's callback, and the render it causes
DistributionsLoaded(i) ==
  /\ CanFire(i)
  /\ timers[i].live
  /\ timers[i].page = "distributions"
  /\ timers' = RemoveAt(timers, i)
  /\ \E n \in Samples, r \in Samples :
       /\ sampleNPM' = n
       /\ sampleROA' = r
       /\ npmData' = RenderSorted(FALSE, selectedMetric, n, "npm")
       /\ roaData' = RenderSorted(FALSE, selectedMetric, r, "roa")
  /\ loading' = [loading EXCEPT !["distributions"] = FALSE]
  /\ UNCHANGED <<route, effectPending, selectedMetric, selectedHeatmap, attrView>>
  /\ UNCHANGED optVars
  /\ UNCHANGED <<coreVars, themeVars, libVars>>

\* loadAttributionData's and loadSensitivityData's callback
PageLoaded(i) ==
  /\ CanFire(i)
  /\ timers[i].live
  /\ timers[i].page \in {"attribution", "sensitivities"}
  /\ timers' = RemoveAt(timers, i)
  /\ loading' = [loading EXCEPT ![timers[i].page] = FALSE]
  /\ attrView' = IF timers[i].page = "attribution" THEN AttributionView ELSE NoView
  /\ UNCHANGED <<route, effectPending, selectedHeatmap>>
  /\ UNCHANGED distVars
  /\ UNCHANGED optVars
  /\ UNCHANGED <<coreVars, themeVars, libVars>>

\* the metric buttons of Distributions, and the render that follows
SetSelectedMetric(m) ==
  /\ route = "distributions"
  /\ ~effectPending
  /\ ~loading["distributions"]
  /\ m # selectedMetric
  /\ selectedMetric' = m
  /\ npmData' = RenderSorted(FALSE, m, npmData, "npm")
  /\ roaData' = RenderSorted(FALSE, m, roaData, "roa")
  /\ UNCHANGED <<route, effectPending, timers, loading, sampleNPM, sampleROA,
                 selectedHeatmap, attrView>>
  /\ UNCHANGED optVars
  /\ UNCHANGED <<coreVars, themeVars, libVars>>

SetSelectedHeatmap(h) ==
  /\ route = "sensitivities"
  /\ ~effectPending
  /\ ~loading["sensitivities"]
  /\ h # selectedHeatmap
  /\ selectedHeatmap' = h
  /\ UNCHANGED <<route, effectPending, timers, loading, attrView>>
  /\ UNCHANGED distVars
  /\ UNCHANGED optVars
  /\ UNCHANGED <<coreVars, themeVars, libVars>>

\* the slider's onChange
SetCvarTarget(v) ==
  /\ route = "optimizer"
  /\ ~loading["optimizer"]
  /\ v # cvarTarget
  /\ cvarTarget' = v
  /\ UNCHANGED <<route, effectPending, timers, loading, selectedHeatmap, attrView,
                 optimizationResult, pendingRun, resultRun>>
  /\ UNCHANGED distVars
  /\ UNCHANGED <<coreVars, themeVars, libVars>>

\* the mutant: the button active while a run is pending
runOptimizationAnyTime(f) ==
  /\ route = "optimizer"
  /\ Len(timers) < MaxTimers
  /\ loading' = [loading EXCEPT !["optimizer"] = TRUE]
  /\ timers' = Append(timers, [page |-> "optimizer", live |-> TRUE])
  /\ pendingRun' = [started |-> TRUE, cvar_target |-> cvarTarget, firm |-> f]
  /\ UNCHANGED <<route, effectPending, selectedHeatmap, attrView, cvarTarget,
                 optimizationResult, resultRun>>
  /\ UNCHANGED distVars
  /\ UNCHANGED <<coreVars, themeVars, libVars>>

\* the Run Optimization button (rendered only while not loading)
runOptimization(f) ==
  /\ route = "optimizer"
  /\ ~loading["optimizer"]
  /\ Len(timers) < MaxTimers
  /\ loading' = [loading EXCEPT !["optimizer"] = TRUE]
  /\ timers' = Append(timers, [page |-> "optimizer", live |-> TRUE])
  /\ pendingRun' = [started |-> TRUE, cvar_target |-> cvarTarget, firm |-> f]
  /\ UNCHANGED <<route, effectPending, selectedHeatmap, attrView, cvarTarget,
                 optimizationResult, resultRun>>
  /\ UNCHANGED distVars
  /\ UNCHANGED <<coreVars, themeVars, libVars>>

\* runOptimization's setTimeout callback
OptimizationDone(i) ==
  /\ CanFire(i)
  /\ timers[i].live
  /\ timers[i].page = "optimizer"
  /\ timers' = RemoveAt(timers, i)
  /\ optimizationResult' = MockResult
  /\ resultRun' = pendingRun
  /\ pendingRun' = NoRun
  /\ loading' = [loading EXCEPT !["optimizer"] = FALSE]
  /\ UNCHANGED <<route, effectPending, selectedHeatmap, attrView, cvarTarget>>
  /\ UNCHANGED distVars
  /\ UNCHANGED <<coreVars, themeVars, libVars>>

Next ==
  \/ \E p \in Pages : Navigate(p)
  \/ MountEffect
  \/ \E i \in 1..MaxTimers : TimerFireStale(i)
  \/ \E i \in 1..MaxTimers : DistributionsLoaded(i)
  \/ \E i \in 1..MaxTimers : PageLoaded(i)
  \/ \E m \in {"npm", "roa"} : SetSelectedMetric(m)
  \/ \E h \in {"theta_hedge", "psi_sigma"} : SetSelectedHeatmap(h)
  \/ \E v \in CvarTargets : SetCvarTarget(v)
  \/ \E f \in Firms : runOptimization(f)
  \/ \E i \in 1..MaxTimers : OptimizationDone(i)

Spec == Init /\ [][Next]_vars

(***************************************************************************)
(* Claims about the dashboard, checked under Spec.                         *)
(***************************************************************************)
\* the page's OptimizationResult interface has no field that could flag a
\* result as infeasible
FlaggedInfeasible(r) == FALSE

\* C2: every result runOptimization stores as the optimal hedge strategy has
\* CVaR95 <= the cvar_target its run was started with, unless it is flagged
\* infeasible.
C2_ResultMeetsCvarTarget ==
  (optimizationResult.set /\ ~FlaggedInfeasible(optimizationResult))
    => optimizationResult.cvar_95 <= resultRun.cvar_target

\* C4: every allocation the optimizer produces has forwards, options,
\* natural >= 0, forwards + options + natural <= 1, and natural <=
\* min(theta, kappa) of the firm it was optimized for (fractions in 1e-4,
\* shares in percent).
C4_AllocationWithinLimits ==
  optimizationResult.set =>
    LET a == optimizationResult.optimal_hedge_ratio
        f == resultRun.firm
    IN /\ a.forwards >= 0 /\ a.options >= 0 /\ a.natural >= 0
       /\ a.forwards + a.options + a.natural <= 10000
       /\ a.natural <= 100 * Min2(f.export_share_theta, f.foreign_cost_share_kappa)

\* C8: the arrays of the Distributions page are read-only after
\* construction: computing the statistics leaves their contents and the
\* order of their elements as the loader built them.
C8_DataReadOnly ==
  route = "distributions" => (npmData = sampleNPM /\ roaData = sampleROA)

\* the mutant: the sweep at step 0.10
generateCoarseFrontier ==
  [k \in 1..11 |->
     [hedge_ratio |-> 10 * (k - 1),
      expected_npm |-> 120000 + 400 * (k - 1),
      npm_std |-> 30000 - 2100 * (k - 1),
      cvar_95 |-> 80000 - 5200 * (k - 1)]]

\* Optimizer: the frontier the page plots, point k at i = k - 1; the hedge
\* ratio i * 0.05 in percent, the other fields in millionths
generateEfficientFrontier ==
  [k \in 1..21 |->
     [hedge_ratio |-> 5 * (k - 1),
      expected_npm |-> 120000 + 200 * (k - 1),
      npm_std |-> 30000 - 1050 * (k - 1),
      cvar_95 |-> 80000 - 2600 * (k - 1)]]

\* the frontier on screen: the page renders a spinner while loading
frontierData ==
  IF route = "optimizer" /\ ~loading["optimizer"]
    THEN generateEfficientFrontier ELSE <<>>

\* Optimizer: the rows of the strategy comparison table, ratio in percent,
\* cvar in millionths
strategies ==
  << [name |-> "No Hedge",           ratio |-> 0,   cvar |-> 80000],
     [name |-> "Conservative (25%)", ratio |-> 25,  cvar |-> 63000],
     [name |-> "Moderate (50%)",     ratio |-> 50,  cvar |-> 48000],
     [name |-> "Optimal (CVaR)",     ratio |-> 52,  cvar |-> 48500],
     [name |-> "Aggressive (75%)",   ratio |-> 75,  cvar |-> 35000],
     [name |-> "Full Hedge (100%)",  ratio |-> 100, cvar |-> 25000] >>

\* C16: the efficient frontier the Optimizer page shows is the sweep of the
\* hedge ratio over [0, 1] at step 0.05, one point per step: 21 points
\* whose hedge ratios rise strictly from 0 to 1, the same whatever the
\* CVaR target, the stored result and the run in flight.
C16_FrontierSweep ==
  (route = "optimizer" /\ ~loading["optimizer"]) =>
    /\ Len(frontierData) = 21
    /\ frontierData[1].hedge_ratio = 0
    /\ frontierData[Len(frontierData)].hedge_ratio = 100
    /\ \A k \in 1..(Len(frontierData) - 1) :
         frontierData[k + 1].hedge_ratio = frontierData[k].hedge_ratio + 5
    /\ \A k \in 1..Len(frontierData) :
         /\ frontierData[k].cvar_95 = 80000 - 520 * frontierData[k].hedge_ratio
         /\ frontierData[k].expected_npm = 120000 + 40 * frontierData[k].hedge_ratio
         /\ frontierData[k].npm_std = 30000 - 210 * frontierData[k].hedge_ratio

\* the frontier on screen after a run, with the slider moved off its default
C16_Witness ==
  /\ route = "optimizer"
  /\ ~loading["optimizer"]
  /\ optimizationResult.set
  /\ cvarTarget # DefaultCvarTarget
  /\ Len(frontierData) = 21

\* the percentiles of the summary cards and of the percentile table
PercentileLadder == {1, 5, 10, 25, 50, 75, 90, 95, 99}

\* what Distributions shows for percentile p, in hundredths of the data's
\* unit: the element of the sorted array at index floor(n * p / 100)
PercentileShown(data, p) == 100 * SortAsc(data)[(Len(data) * p) \div 100 + 1]

\* the array Distributions reports on
currentData == IF selectedMetric = "npm" THEN npmData ELSE roaData

\* C12: every percentile the Distributions page reports is the type-7
\* quantile of the data, interpolated linearly between order statistics.
C12_PercentilesType7 ==
  (route = "distributions" /\ ~loading["distributions"] /\ Len(currentData) >= 1) =>
    \A p \in PercentileLadder :
      PercentileShown(currentData, p) = Percentile100(currentData, p)

\* C10: the NPM the Attribution page reports is NetProfit over the
\* FX-adjusted revenue Revenue0 + DeltaRevenue, its ROA NetProfit over
\* Assets.
C10_AttributionRatios ==
  attrView.shown =>
    /\ attrView.npm =
         PctFixed2(netProfit, baseRevenue + FindValue("FX Revenue Impact"))
    /\ attrView.roa = PctFixed2(netProfit, AttributionAssets)

(***************************************************************************)
(* HedgeEngine.price_and_pnl (specification document, section 4.2), in     *)
(* integer arithmetic: shares and allocation fractions in percent, rates   *)
(* in percent per year, exp(x) to first order.                             *)
(***************************************************************************)
\* bounds of the PathSet
MaxPaths == 2
MaxHorizon == 2

ModelTypes == {"gbm", "regime", "jump", "garch"}
\* the rates a simulated path takes
RateValues == {90, 110}
\* allocation fractions the requests use
HedgeConfigs ==
  {[forwards |-> f, options |-> o, natural |-> n, tenor_months |-> t] :
     f \in {0, 50}, o \in {0, 30}, n \in {0, 20}, t \in {3, 12}}

\* SimulationConfig without its hedge: process, rates, costs
BaseConfigs ==
  {[model |-> "gbm", sigma_annual |-> 8, spot_rate |-> 100, r_inr |-> 6,
    r_usd |-> 4, transaction_cost_bps |-> 10],
   [model |-> "garch", sigma_annual |-> 20, spot_rate |-> 100, r_inr |-> 0,
    r_usd |-> 5, transaction_cost_bps |-> 0],
   [model |-> "jump", sigma_annual |-> 8, spot_rate |-> 100, r_inr |-> 6,
    r_usd |-> 4, transaction_cost_bps |-> 25]}

WithHedge(base, h, n, horizon) ==
  [model |-> base.model, sigma_annual |-> base.sigma_annual,
   spot_rate |-> base.spot_rate, r_inr |-> base.r_inr, r_usd |-> base.r_usd,
   transaction_cost_bps |-> base.transaction_cost_bps,
   n_paths |-> n, horizon_quarters |-> horizon, hedge |-> h]

PathSets(n, horizon) == [1..n -> [1..horizon -> RateValues]]

\* largest r in lo..hi with r * r <= x, by bisection
RECURSIVE SqrtBetween(_, _, _)
SqrtBetween(x, lo, hi) ==
  IF lo = hi THEN lo
  ELSE LET mid == (lo + hi + 1) \div 2
       IN IF mid * mid <= x THEN SqrtBetween(x, mid, hi)
          ELSE SqrtBetween(x, lo, mid - 1)

\* largest r with r * r <= x
ISqrt(x) == SqrtBetween(x, 0, IF x < 46340 THEN x ELSE 46340)

Matrix(n, horizon, Cell(_, _)) == [i \in 1..n |-> [t \in 1..horizon |-> Cell(i, t)]]

\* F = S0 * exp((r_domestic - r_foreign) * T)
ForwardRate(cfg) ==
  cfg.spot_rate
  + (cfg.spot_rate * (cfg.r_inr - cfg.r_usd) * cfg.hedge.tenor_months) \div 1200

\* Garman-Kohlhagen at the money forward (K = F): C ~ 0.4 * F * sigma * sqrt(T)
OptionPremium(cfg) ==
  (4 * ForwardRate(cfg) * cfg.sigma_annual * ISqrt(cfg.hedge.tenor_months)) \div 3464

\* foreign-currency revenue exposure, the notional the instruments hedge
Notional(f) == (f.export_share_theta * f.revenue_inr_q) \div 100

\* the mutant: the forward bought instead of sold, paying S_t - F
ForwardPnLLong(f, cfg, s) ==
  (cfg.hedge.forwards * Notional(f) * (s - ForwardRate(cfg)))
    \div (100 * cfg.spot_rate)

\* notional_fraction_hedged_by_forward * (F - S_t)
ForwardPnL(f, cfg, s) ==
  (cfg.hedge.forwards * Notional(f) * (ForwardRate(cfg) - s))
    \div (100 * cfg.spot_rate)

\* the mutant: the premium is charged on the whole exposure, whatever the
\* fraction hedged by options
OptionPnLUnscaled(f, cfg, s) ==
  LET K == ForwardRate(cfg)
      intrinsic == IF s > K THEN s - K ELSE 0
  IN (cfg.hedge.options * Notional(f) * intrinsic) \div (100 * cfg.spot_rate)
     - (Notional(f) * (OptionPremium(cfg) \div cfg.horizon_quarters))
         \div cfg.spot_rate

\* intrinsic value at the period minus the amortized premium, on the
\* fraction hedged by options
OptionPnL(f, cfg, s) ==
  LET K == ForwardRate(cfg)
      intrinsic == IF s > K THEN s - K ELSE 0
  IN (cfg.hedge.options * Notional(f)
        * (intrinsic - OptionPremium(cfg) \div cfg.horizon_quarters))
       \div (100 * cfg.spot_rate)

\* min(theta, kappa) * natural_fraction * (S_t / S0 - 1) * revenue_base
NaturalHedgeBenefit(f, cfg, s) ==
  (Min2(f.export_share_theta, f.foreign_cost_share_kappa) * cfg.hedge.natural
     * (s - cfg.spot_rate) * f.revenue_inr_q) \div (100 * 100 * cfg.spot_rate)

\* basis points of the notional hedged, once per instrument
TransactionCosts(f, cfg) ==
  (cfg.transaction_cost_bps * cfg.hedge.forwards * Notional(f)) \div 1000000
  + (cfg.transaction_cost_bps * cfg.hedge.options * Notional(f)) \div 1000000

price_and_pnl(f, cfg, paths) ==
  LET n == cfg.n_paths
      h == cfg.horizon_quarters
      fwd == Matrix(n, h, LAMBDA i, t : ForwardPnL(f, cfg, paths[i][t]))
      opt == Matrix(n, h, LAMBDA i, t : OptionPnL(f, cfg, paths[i][t]))
      nat == Matrix(n, h, LAMBDA i, t : NaturalHedgeBenefit(f, cfg, paths[i][t]))
      tc == TransactionCosts(f, cfg)
  IN [total_pnl |-> Matrix(n, h, LAMBDA i, t :
                      fwd[i][t] + opt[i][t] + nat[i][t]
                        - (IF t = 1 THEN tc ELSE 0)),
      forward_pnl |-> fwd,
      option_pnl |-> opt,
      natural_hedge_benefit |-> nat,
      transaction_costs |-> tc,
      forward_rate |-> ForwardRate(cfg),
      option_strike |-> ForwardRate(cfg),
      option_premium |-> OptionPremium(cfg)]

\* a request and the PathSet simulated for it
HedgeInit ==
  /\ FrontIdle
  /\ ThemeIdle
  /\ LibIdle
  /\ pc = "paths"
  /\ firm \in Firms
  /\ \E base \in BaseConfigs, h \in HedgeConfigs,
        n \in 1..MaxPaths, horizon \in 1..MaxHorizon :
       /\ config = WithHedge(base, h, n, horizon)
       /\ fx_paths \in PathSets(n, horizon)
  /\ draws = None
  /\ hedge_pnl = None
  /\ RiskIdle
  /\ OptimIdle

PriceAndPnl ==
  /\ pc = "paths"
  /\ hedge_pnl' = price_and_pnl(firm, config, fx_paths)
  /\ pc' = "hedged"
  /\ UNCHANGED <<firm, config, fx_paths, draws>>
  /\ UNCHANGED riskVars
  /\ UNCHANGED optimVars
  /\ UNCHANGED frontVars

HedgeNext == PriceAndPnl

HedgeSpec == HedgeInit /\ [][HedgeNext]_vars

ZeroAllocation(h) == h.forwards = 0 /\ h.options = 0 /\ h.natural = 0

AllZero(m) == \A i \in DOMAIN m : \A t \in DOMAIN m[i] : m[i][t] = 0

\* C1: no-hedge invariant: with forwards = options = natural = 0 the total
\* hedge P&L is zero for every path and every period, and neither forward
\* payoff, option premium, natural-hedge benefit nor transaction cost
\* contributes.
C1_NoHedgeInvariant ==
  (pc = "hedged" /\ ZeroAllocation(config.hedge)) =>
    /\ AllZero(hedge_pnl.total_pnl)
    /\ AllZero(hedge_pnl.forward_pnl)
    /\ AllZero(hedge_pnl.option_pnl)
    /\ AllZero(hedge_pnl.natural_hedge_benefit)
    /\ hedge_pnl.transaction_costs = 0

\* an unhedged request priced at a positive premium and a non-zero cost
\* rate, over paths that move away from the forward rate
C1_Witness ==
  /\ pc = "hedged"
  /\ ZeroAllocation(config.hedge)
  /\ config.transaction_cost_bps > 0
  /\ hedge_pnl.option_premium > 0
  /\ config.n_paths = MaxPaths
  /\ config.horizon_quarters = MaxHorizon
  /\ \E i \in 1..config.n_paths : fx_paths[i][1] # hedge_pnl.forward_rate

(***************************************************************************)
(* RiskAnalyzer.analyze (specification document, section 4.4) over one     *)
(* cross-section of NPM and ROA, values in percent.  The result records    *)
(* are those of types/index.ts.  With n observations of sum s,             *)
(* n * std = sqrt(n * sum of squares - s * s), so the ratios need no       *)
(* fractions; they are reported in hundredths.                             *)
(***************************************************************************)
\* bound of the cross-section
MaxObs == 3

ObsValues == {-5, 0, 5}
Distributions(n) == [1..n -> ObsValues]
\* the risk-free rates of the requests, percent
RiskFreeRates == {0, 5}

RECURSIVE SumSq(_)
SumSq(s) == IF s = <<>> THEN 0 ELSE Head(s) * Head(s) + SumSq(Tail(s))

\* n times the standard deviation
StdN(d) == ISqrt(Len(d) * SumSq(d) - SeqSum(d) * SeqSum(d))

\* n times the semi-deviation: over the observations below the mean only
DownsideStdN(d) ==
  LET n == Len(d)
      below == {i \in 1..n : n * d[i] < SeqSum(d)}
      dev == [i \in 1..n |-> IF i \in below THEN n * d[i] - SeqSum(d) ELSE 0]
  IN IF below = {} THEN 0 ELSE ISqrt(SumSq(dev) \div Cardinality(below))

\* the sentinel substituted for a ratio whose denominator is zero
Sentinel == 0

\* (mean - risk_free) / denominator, or the sentinel
Ratio(d, rf, denomN) ==
  IF denomN = 0 THEN Sentinel
  ELSE (100 * (SeqSum(d) - Len(d) * rf)) \div denomN

Sharpe(d, rf) == Ratio(d, rf, StdN(d))
Sortino(d, rf) == Ratio(d, rf, DownsideStdN(d))

\* RiskAdjustedMetrics: four numbers
RiskAdjusted(p, rf) ==
  [npm_sharpe |-> Sharpe(p.npm, rf), npm_sortino |-> Sortino(p.npm, rf),
   roa_sharpe |-> Sharpe(p.roa, rf), roa_sortino |-> Sortino(p.roa, rf)]

\* VolatilityMetrics, in units of 1 / (100 n)
Volatility(p) ==
  [npm |-> [total |-> StdN(p.npm), downside |-> DownsideStdN(p.npm)],
   roa |-> [total |-> StdN(p.roa), downside |-> DownsideStdN(p.roa)]]

\* the confidence levels reported, percent
ConfidenceLevels == {90, 95, 99}

\* VaR_alpha = -percentile(distribution, 100 * (1 - alpha)), in hundredths
VaR100(d, alpha) == 0 - Percentile100(d, 100 - alpha)

\* the mutant: the mean is taken over the outcomes at or above the threshold
CVaRUpperTail(d, alpha) ==
  LET tail == {i \in 1..Len(d) : 100 * d[i] >= Percentile100(d, 100 - alpha)}
      sum == SeqSum([i \in 1..Len(d) |-> IF i \in tail THEN d[i] ELSE 0])
  IN 0 - ((100 * sum) \div Cardinality(tail))

\* CVaR_alpha = -E[x | x <= -VaR_alpha], in hundredths; the single worst
\* observation when no observation falls in the tail
CVaR100(d, alpha) ==
  LET tail == {i \in 1..Len(d) : 100 * d[i] <= 0 - VaR100(d, alpha)}
      sum == SeqSum([i \in 1..Len(d) |-> IF i \in tail THEN d[i] ELSE 0])
  IN IF tail = {} THEN 0 - 100 * SortAsc(d)[1]
     ELSE 0 - ((100 * sum) \div Cardinality(tail))

\* VaRMetrics and CVaRMetrics: one RiskMetric per confidence level
VaRMetrics(p) ==
  [a \in ConfidenceLevels |-> [npm |-> VaR100(p.npm, a), roa |-> VaR100(p.roa, a)]]
CVaRMetrics(p) ==
  [a \in ConfidenceLevels |-> [npm |-> CVaR100(p.npm, a), roa |-> CVaR100(p.roa, a)]]

analyze(p, rf) ==
  [var |-> VaRMetrics(p), cvar |-> CVaRMetrics(p),
   volatility |-> Volatility(p), risk_adjusted |-> RiskAdjusted(p, rf)]

RiskInit ==
  /\ FrontIdle
  /\ ThemeIdle
  /\ LibIdle
  /\ HedgeIdle
  /\ OptimIdle
  /\ pc = "profit"
  /\ firm \in Firms
  /\ \E rf \in RiskFreeRates : config = [r_inr |-> rf]
  /\ \E n \in 1..MaxObs :
       \E d \in Distributions(n), r \in Distributions(n) :
         profitability = [npm |-> d, roa |-> r]
  /\ risk_metrics = None

Analyze ==
  /\ pc = "profit"
  /\ risk_metrics' = analyze(profitability, config.r_inr)
  /\ pc' = "analyzed"
  /\ UNCHANGED <<firm, config, profitability>>
  /\ UNCHANGED hedgeVars
  /\ UNCHANGED optimVars
  /\ UNCHANGED frontVars

RiskNext == Analyze

RiskSpec == RiskInit /\ [][RiskNext]_vars

\* the denominator of a ratio of the NPM cross-section is exactly zero
NpmDegenerate(d) == StdN(d) = 0 \/ DownsideStdN(d) = 0

\* C9: when a Sharpe or Sortino denominator is exactly zero the returned
\* risk-adjusted metrics let a consumer tell the sentinel from a genuinely
\* computed ratio of the same value: no cross-section with a non-zero
\* denominator yields the same RiskAdjustedMetrics as a degenerate one.
C9_SentinelDistinguishable ==
  pc = "analyzed" =>
    \A d \in Distributions(Len(profitability.npm)) :
      RiskAdjusted([npm |-> d, roa |-> profitability.roa], config.r_inr)
          = risk_metrics.risk_adjusted
        => (NpmDegenerate(d) <=> NpmDegenerate(profitability.npm))

NoLoss(d) == \A i \in 1..Len(d) : d[i] > 0
NoGain(d) == \A i \in 1..Len(d) : d[i] <= 0

NumStarts == 2
\* the max-iteration cap of one local optimisation, in evaluations
MaxIter == 3

\* the allocations the local search moves over
Allocations ==
  << [forwards |-> 0,  options |-> 0,  natural |-> 0],
     [forwards |-> 50, options |-> 0,  natural |-> 0],
     [forwards |-> 0,  options |-> 50, natural |-> 0],
     [forwards |-> 50, options |-> 50, natural |-> 0] >>
AllocIds == 1..Len(Allocations)

\* two allocations one step apart: they differ in one instrument
Adjacent(i, j) ==
  (Allocations[i].forwards # Allocations[j].forwards)
    # (Allocations[i].options # Allocations[j].options)

Nbrs(i) == SelectSeq([k \in AllocIds |-> k], LAMBDA j : Adjacent(i, j))

\* what one evaluation of the pipeline reports, percent
EvalValues ==
  {[expected_npm |-> 12, npm_volatility |-> 3, cvar_95 |-> 4],
   [expected_npm |-> 10, npm_volatility |-> 2, cvar_95 |-> 6],
   [expected_npm |-> 11, npm_volatility |-> 1, cvar_95 |-> 8]}
Surfaces == [AllocIds -> EvalValues]
FlatSurface == [i \in AllocIds |-> [expected_npm |-> 12, npm_volatility |-> 3, cvar_95 |-> 4]]

Objectives == {"maximize_npm", "minimize_variance"}
\* cvar_target of the requests, percent
RequestTargets == {-1, 5, 7, 101}
\* the CVaR targets the frontier sweep solves for besides the request's
SweepTargets == <<9>>

GoodConfig ==
  [model |-> "gbm", n_paths |-> 5000, horizon_quarters |-> 4,
   sigma_annual |-> 8, garch_alpha |-> 10, garch_beta |-> 85, seed |-> 42]
GoodGarch == [GoodConfig EXCEPT !.model = "garch"]
OptConfigs ==
  {GoodConfig, GoodGarch,
   [GoodConfig EXCEPT !.n_paths = 0],
   [GoodConfig EXCEPT !.horizon_quarters = 0],
   [GoodConfig EXCEPT !.sigma_annual = -1],
   [GoodGarch EXCEPT !.garch_beta = 90]}

\* the mutant: the CVaR target is not validated up front
ValidRequestLate(cfg, target) ==
  /\ cfg.n_paths >= 1
  /\ cfg.horizon_quarters >= 1
  /\ cfg.sigma_annual >= 0
  /\ cfg.model = "garch" => cfg.garch_alpha + cfg.garch_beta < 100

\* validation of a request, before anything is simulated
ValidRequest(cfg, target) ==
  /\ cfg.n_paths >= 1
  /\ cfg.horizon_quarters >= 1
  /\ cfg.sigma_annual >= 0
  /\ cfg.model = "garch" => cfg.garch_alpha + cfg.garch_beta < 100
  /\ target >= 0
  /\ target <= 100

\* the randomized feasible start of attempt s, a function of the seed
StartAlloc(cfg, s) == ((cfg.seed + 3 * (s - 1)) % Len(Allocations)) + 1

Score(m, obj) ==
  IF obj = "maximize_npm" THEN m.expected_npm ELSE 0 - m.npm_volatility

Feasible(m, target) == m.cvar_95 <= target

\* the mutant: results are compared on the objective alone
BetterByObjective(a, b, obj, target) == Score(a, obj) > Score(b, obj)

\* a is strictly better than b: feasible before infeasible, then the
\* objective; among infeasible results the smaller violation
Better(a, b, obj, target) ==
  IF Feasible(a, target) /\ Feasible(b, target) THEN Score(a, obj) > Score(b, obj)
  ELSE IF Feasible(a, target) THEN TRUE
  ELSE IF Feasible(b, target) THEN FALSE
  ELSE a.cvar_95 < b.cvar_95

InitialAttempt(cfg, s) ==
  [x |-> StartAlloc(cfg, s), val |-> None, k |-> 0, iters |-> 0,
   status |-> "start", cand |-> 0]

\* the allocation an attempt evaluates next
Candidate(a) == IF a.status = "start" THEN a.x ELSE Nbrs(a.x)[a.k]

\* the mutant: the cap is never reached
CapNever(iters) == FALSE

\* the hard stop
CapReached(iters) == iters >= MaxIter

\* the attempt after the evaluation of its candidate a.cand reported m
AfterEvaluation(a, m, obj, target) ==
  LET moved == a.status = "start" \/ Better(m, a.val, obj, target)
      x2 == IF moved THEN a.cand ELSE a.x
      k2 == IF moved THEN 1 ELSE a.k + 1
  IN [x |-> x2,
      val |-> IF moved THEN m ELSE a.val,
      k |-> k2,
      iters |-> a.iters,
      status |-> IF k2 > Len(Nbrs(x2)) THEN "converged"
                 ELSE IF CapReached(a.iters) THEN "capped"
                 ELSE "search",
      cand |-> 0]

Finished(a) == a.status \in {"converged", "capped"}

\* the mutant: every evaluation works in the same PathSet and results
SlotShared(s) == 1

\* the PathSet and derived results an evaluation of attempt s owns
Slot(s) == s

\* the retained attempt among the first n: a later one replaces it only
\* when strictly better
RECURSIVE BestOf(_, _, _, _)
BestOf(atts, n, obj, target) ==
  IF n = 1 THEN 1
  ELSE LET b == BestOf(atts, n - 1, obj, target)
       IN IF Better(atts[n].val, atts[b].val, obj, target) THEN n ELSE b

ResultOf(a, target) ==
  [success |-> a.status = "converged" /\ Feasible(a.val, target),
   infeasible |-> ~Feasible(a.val, target),
   optimal_hedge |-> Allocations[a.x],
   expected_npm |-> a.val.expected_npm,
   npm_volatility |-> a.val.npm_volatility,
   cvar_95 |-> a.val.cvar_95,
   iterations |-> a.iters]

\* the attempts: the start points, then one per frontier sweep point
Tasks == 1..(NumStarts + Len(SweepTargets))
TargetOf(s, target) == IF s <= NumStarts THEN target ELSE SweepTargets[s - NumStarts]

FrontierPoint(a, target) ==
  [cvar_target |-> target,
   hedge |-> Allocations[a.x],
   expected_npm |-> a.val.expected_npm,
   npm_volatility |-> a.val.npm_volatility,
   cvar_95 |-> a.val.cvar_95]

SelectBest(atts, obj, target) ==
  [optimum |-> ResultOf(atts[BestOf(atts, NumStarts, obj, target)], target),
   efficient_frontier |->
     [j \in 1..Len(SweepTargets) |->
        FrontierPoint(atts[NumStarts + j], SweepTargets[j])]]

OptInit ==
  /\ FrontIdle
  /\ ThemeIdle
  /\ LibIdle
  /\ HedgeIdle
  /\ RiskIdle
  /\ pc = "received"
  /\ firm = ReferenceFirm
  /\ config \in OptConfigs
  /\ cvar_target \in RequestTargets
  /\ objective \in Objectives
  /\ surface \in IF ValidRequest(config, cvar_target) /\ config = GoodConfig
                  THEN Surfaces ELSE {FlatSurface}
  /\ attempts = <<>>
  /\ workspace = <<>>
  /\ evaluations = 0
  /\ overlapped = FALSE
  /\ result = None
  /\ error = "none"

optFrame == <<firm, config, cvar_target, objective, surface>>

\* a malformed request is rejected
Reject ==
  /\ pc = "received"
  /\ ~ValidRequest(config, cvar_target)
  /\ pc' = "failed"
  /\ error' = "InvalidConfiguration"
  /\ UNCHANGED <<attempts, workspace, evaluations, overlapped, result>>
  /\ UNCHANGED optFrame
  /\ UNCHANGED <<hedgeVars, riskVars, frontVars>>

\* a well-formed one starts the attempts
Accept ==
  /\ pc = "received"
  /\ ValidRequest(config, cvar_target)
  /\ pc' = "running"
  /\ attempts' = [s \in Tasks |-> InitialAttempt(config, s)]
  /\ workspace' = [s \in Tasks |-> None]
  /\ UNCHANGED <<evaluations, overlapped, result, error>>
  /\ UNCHANGED optFrame
  /\ UNCHANGED <<hedgeVars, riskVars, frontVars>>

\* attempt s runs the pipeline at its next candidate
RunPipeline(s) ==
  /\ pc = "running"
  /\ ~Finished(attempts[s])
  /\ attempts[s].cand = 0
  /\ LET c == Candidate(attempts[s])
     IN /\ attempts' = [attempts EXCEPT ![s].cand = c, ![s].iters = @ + 1]
        /\ workspace' = [workspace EXCEPT
                           ![Slot(s)] = [alloc |-> c, metrics |-> surface[c]]]
  /\ evaluations' = evaluations + 1
  /\ overlapped' = (overlapped \/ \E t \in Tasks : t # s /\ attempts[t].cand # 0)
  /\ UNCHANGED <<pc, result, error>>
  /\ UNCHANGED optFrame
  /\ UNCHANGED <<hedgeVars, riskVars, frontVars>>

\* attempt s reads the metrics of its evaluation and takes its step
TakeStep(s) ==
  /\ pc = "running"
  /\ attempts[s].cand # 0
  /\ attempts' = [attempts EXCEPT
                    ![s] = AfterEvaluation(@, workspace[Slot(s)].metrics,
                                           objective, TargetOf(s, cvar_target))]
  /\ UNCHANGED <<pc, workspace, evaluations, overlapped, result, error>>
  /\ UNCHANGED optFrame
  /\ UNCHANGED <<hedgeVars, riskVars, frontVars>>

\* every attempt has stopped: the result is selected and returned
Select ==
  /\ pc = "running"
  /\ \A s \in Tasks : Finished(attempts[s])
  /\ result' = SelectBest(attempts, objective, cvar_target)
  /\ pc' = "done"
  /\ UNCHANGED <<attempts, workspace, evaluations, overlapped, error>>
  /\ UNCHANGED optFrame
  /\ UNCHANGED <<hedgeVars, riskVars, frontVars>>

OptNext ==
  \/ Reject
  \/ Accept
  \/ \E s \in Tasks : RunPipeline(s)
  \/ \E s \in Tasks : TakeStep(s)
  \/ Select

OptSpec == OptInit /\ [][OptNext]_vars

\* the attempts are scheduled until the call returns
FairOptSpec == OptSpec /\ WF_vars(OptNext)

\* one attempt run on its own from a to its end
RECURSIVE LocalSearch(_, _, _)
LocalSearch(a, obj, target) ==
  IF Finished(a) THEN a
  ELSE LET c == Candidate(a)
           a1 == [a EXCEPT !.cand = c, !.iters = @ + 1]
       IN LocalSearch(AfterEvaluation(a1, surface[c], obj, target), obj, target)

\* the attempts run one after the other
SequentialResult ==
  SelectBest([s \in Tasks |->
                LocalSearch(InitialAttempt(config, s), objective,
                            TargetOf(s, cvar_target))],
             objective, cvar_target)

\* the local optima of the start points of the returned call
LocalOptima == {attempts[s].val : s \in 1..NumStarts}
FeasibleOptima == {m \in LocalOptima : m.cvar_95 <= cvar_target}

\* C3: when a start point's local optimum is feasible the returned result is
\* feasible and no feasible local optimum has a strictly better objective;
\* an infeasible result is returned only when no local optimum is feasible,
\* and then it is the least-infeasible one and carries the flag.
C3_MultiStartSelection ==
  pc = "done" =>
    LET opt == result.optimum
    IN /\ \E s \in 1..NumStarts :
            /\ opt.optimal_hedge = Allocations[attempts[s].x]
            /\ opt.expected_npm = attempts[s].val.expected_npm
            /\ opt.npm_volatility = attempts[s].val.npm_volatility
            /\ opt.cvar_95 = attempts[s].val.cvar_95
       /\ FeasibleOptima # {} =>
            /\ opt.cvar_95 <= cvar_target
            /\ ~opt.infeasible
            /\ \A m \in FeasibleOptima : Score(m, objective) <= Score(opt, objective)
       /\ opt.cvar_95 > cvar_target =>
            /\ FeasibleOptima = {}
            /\ opt.infeasible
            /\ \A m \in LocalOptima : opt.cvar_95 <= m.cvar_95

\* a call returned where an infeasible local optimum has the better
\* objective than the feasible one
C3_Witness ==
  /\ pc = "done"
  /\ \E m \in FeasibleOptima : \E w \in LocalOptima \ FeasibleOptima :
       Score(w, objective) > Score(m, objective)

ViolatesInputCondition ==
  \/ config.n_paths < 1
  \/ config.horizon_quarters < 1
  \/ config.sigma_annual < 0
  \/ config.model = "garch" /\ config.garch_alpha + config.garch_beta >= 100
  \/ cvar_target < 0
  \/ cvar_target > 100

\* C5: a request that violates an input condition fails with
\* InvalidConfiguration, no path generation or pipeline evaluation runs
\* before the failure, and the failed request is not taken up again.
C5_ValidationPrecedesSimulation ==
  /\ [](ViolatesInputCondition =>
          /\ pc \in {"received", "failed"}
          /\ evaluations = 0
          /\ attempts = <<>>
          /\ workspace = <<>>
          /\ result = None
          /\ pc = "failed" <=> error = "InvalidConfiguration")
  /\ [][pc = "failed" => pc' = "failed" /\ evaluations' = evaluations]_vars
  /\ (ViolatesInputCondition ~> pc = "failed")

\* a request with a CVaR target above 1 and nothing else wrong was rejected
C5_Witness ==
  /\ pc = "failed"
  /\ error = "InvalidConfiguration"
  /\ cvar_target > 100
  /\ config = GoodConfig
  /\ evaluations = 0

\* C6: optimize terminates; no attempt evaluates past the iteration cap; an
\* attempt stopped by the cap still yields its best allocation so far, with
\* success = false, as a result and not as an error.
C6_TerminatesAtCap ==
  /\ <>(pc \in {"done", "failed"})
  /\ [](\A s \in DOMAIN attempts : attempts[s].iters <= MaxIter)
  /\ [](~ViolatesInputCondition => pc # "failed" /\ error = "none")
  /\ [](pc = "done" =>
          /\ result.optimum.success =>
               \E s \in 1..NumStarts :
                 /\ attempts[s].status = "converged"
                 /\ result.optimum.optimal_hedge = Allocations[attempts[s].x]
          /\ (\A s \in 1..NumStarts : attempts[s].status = "capped") =>
               /\ ~result.optimum.success
               /\ \E s \in 1..NumStarts :
                    /\ result.optimum.optimal_hedge = Allocations[attempts[s].x]
                    /\ result.optimum.cvar_95 = attempts[s].val.cvar_95
                    /\ result.optimum.iterations = MaxIter)

\* every start point was stopped by the cap and the call returned a feasible
\* best-so-far allocation with success = false
C6_Witness ==
  /\ pc = "done"
  /\ \A s \in 1..NumStarts : attempts[s].status = "capped"
  /\ ~result.optimum.infeasible
  /\ ~result.optimum.success
  /\ result.optimum.iterations = MaxIter

\* C7: whatever the interleaving of the attempts and sweep points, an
\* evaluation in flight finds its own allocation's results where it left
\* them, and the call returns what running them one after the other returns.
C7_InterleavingIndependent ==
  /\ \A s \in DOMAIN attempts :
       attempts[s].cand # 0 =>
         workspace[s] = [alloc |-> attempts[s].cand,
                         metrics |-> surface[attempts[s].cand]]
  /\ pc = "done" => result = SequentialResult

\* a call returned whose evaluations overlapped in time, on a surface where
\* the allocations do not all evaluate alike
C7_Witness ==
  /\ pc = "done"
  /\ overlapped
  /\ \E i \in AllocIds : \E j \in AllocIds : surface[i] # surface[j]
  /\ \E s \in Tasks : \E t \in Tasks : attempts[s].x # attempts[t].x

(***************************************************************************)
(* ProfitabilityModel.compute (specification document, section 4.3), in    *)
(* integer arithmetic: shares in percent, NPM and ROA in hundredths of a   *)
(* percent.  A ratio is a number or undefined (what a division by zero     *)
(* leaves: NaN, an infinity or a raised error).                            *)
(***************************************************************************)
Number(v) == [defined |-> TRUE, value |-> v]
Undefined == [defined |-> FALSE, value |-> 0]

\* a / b in hundredths of a percent
Quotient(a, b) == IF b = 0 THEN Undefined ELSE Number((10000 * a) \div b)

\* the magnitude reported for NPM when the adjusted revenue is not positive
LargeMagnitude == 1000000

\* DeltaRevenue = theta * Revenue0 * (S_t / S0 - 1) * (1 - psi)
DeltaRevenue(f, cfg, s) ==
  (Notional(f) * (s - cfg.spot_rate) * (100 - f.pass_through_psi))
    \div (100 * cfg.spot_rate)

\* DeltaCost = kappa * Cost0 * (S_t / S0 - 1)
DeltaCost(f, cfg, s) ==
  (f.foreign_cost_share_kappa * f.cost_inr_q * (s - cfg.spot_rate))
    \div (100 * cfg.spot_rate)

AdjustedRevenue(f, cfg, s) == f.revenue_inr_q + DeltaRevenue(f, cfg, s)

\* Revenue0 + DeltaRevenue - Cost0 - DeltaCost + HedgePnL_total
NetProfit(f, cfg, s, h) ==
  AdjustedRevenue(f, cfg, s) - f.cost_inr_q - DeltaCost(f, cfg, s) + h

\* the mutant: the plain quotient, whatever the adjusted revenue
NPMUnguarded(net, adj) == Quotient(net, adj)

\* NetProfit / (Revenue0 + DeltaRevenue); a large-magnitude signed value
\* when the adjusted revenue is not positive
NPM(net, adj) ==
  IF adj > 0 THEN Quotient(net, adj)
  ELSE Number(IF net >= 0 THEN LargeMagnitude ELSE 0 - LargeMagnitude)

\* NetProfit / Assets
ROA(net, assets) == Quotient(net, assets)

compute(f, cfg, paths, hp) ==
  LET n == cfg.n_paths
      h == cfg.horizon_quarters
      net == Matrix(n, h, LAMBDA i, t :
               NetProfit(f, cfg, paths[i][t], hp.total_pnl[i][t]))
      rev == Matrix(n, h, LAMBDA i, t : AdjustedRevenue(f, cfg, paths[i][t]))
  IN [npm |-> Matrix(n, h, LAMBDA i, t : NPM(net[i][t], rev[i][t])),
      roa |-> Matrix(n, h, LAMBDA i, t : ROA(net[i][t], f.assets_inr)),
      net_profit |-> net,
      revenue |-> rev,
      costs |-> Matrix(n, h, LAMBDA i, t :
                  f.cost_inr_q + DeltaCost(f, cfg, paths[i][t])),
      delta_revenue |-> Matrix(n, h, LAMBDA i, t : DeltaRevenue(f, cfg, paths[i][t])),
      delta_cost |-> Matrix(n, h, LAMBDA i, t : DeltaCost(f, cfg, paths[i][t]))]

\* the terminal-period cross-section of a ratio, one entry per path
Terminal(m) == [i \in 1..Len(m) |-> m[i][Len(m[i])]]
Values(d) == [i \in 1..Len(d) |-> d[i].value]
AllDefined(d) == \A i \in 1..Len(d) : d[i].defined

\* a tail statistic of a cross-section: undefined once an entry is
TailStatistic(d, alpha) ==
  IF AllDefined(d) THEN Number(CVaR100(Values(d), alpha)) ELSE Undefined

\* firms at the edge of the FirmProfile invariant, and beyond it in revenue
FullExposureFirm ==
  [revenue_inr_q |-> 1000, cost_inr_q |-> 900, assets_inr |-> 5000,
   export_share_theta |-> 100, foreign_cost_share_kappa |-> 0,
   pass_through_psi |-> 0]
ProfitFirms ==
  Firms \cup {FullExposureFirm,
              [FullExposureFirm EXCEPT !.revenue_inr_q = 0, !.cost_inr_q = 0],
              [FullExposureFirm EXCEPT !.revenue_inr_q = -1000]}

\* the rates of the paths handed to compute, S0 = 100: a collapse to zero
\* among them
ExtremeRates == {0, 100, 150}
\* total hedge P&L of a cell
HedgeTotals == {-200, 0, 200}

ProfitInit ==
  /\ FrontIdle
  /\ ThemeIdle
  /\ LibIdle
  /\ OptimIdle
  /\ pc = "hedged"
  /\ firm \in ProfitFirms
  /\ \E n \in 1..MaxPaths, h \in 1..MaxHorizon :
       /\ config = [spot_rate |-> 100, r_inr |-> 0, n_paths |-> n,
                    horizon_quarters |-> h]
       /\ fx_paths \in [1..n -> [1..h -> ExtremeRates]]
       /\ \E v \in HedgeTotals :
            hedge_pnl = [total_pnl |-> [i \in 1..n |-> [t \in 1..h |-> v]]]
  /\ draws = None
  /\ RiskIdle

Compute ==
  /\ pc = "hedged"
  /\ profitability' = compute(firm, config, fx_paths, hedge_pnl)
  /\ pc' = "computed"
  /\ UNCHANGED <<firm, config, risk_metrics>>
  /\ UNCHANGED hedgeVars
  /\ UNCHANGED optimVars
  /\ UNCHANGED frontVars

ProfitNext == Compute

ProfitSpec == ProfitInit /\ [][ProfitNext]_vars

NonPositiveRevenue(i, t) == profitability.revenue[i][t] <= 0

BaselineOverCost(f) == Quotient(f.revenue_inr_q - f.cost_inr_q, f.cost_inr_q)

\* the baseline NPM (Revenue0 - Cost0) / Revenue0
BaselineNPM(f) == Quotient(f.revenue_inr_q - f.cost_inr_q, f.revenue_inr_q)

\* the request is for the firm whose figures the Attribution page shows
AttributionFirm ==
  /\ firm.revenue_inr_q = FindValue("Base Revenue")
  /\ firm.cost_inr_q = 0 - FindValue("Base Costs")

MaxSimPaths == 3

\* the values a standard-normal draw takes
ZValues == {-1, 1}
\* annual drift and volatility of the requests, percent
Drifts == {0, 4}
Sigmas == {0, 20}

NoHedge == [forwards |-> 0, options |-> 0, natural |-> 0]
HalfForwards == [forwards |-> 50, options |-> 0, natural |-> 0]
SimHedges == {NoHedge, HalfForwards}

SimConfig(mu, sigma, anti, h, n, horizon) ==
  [model |-> "gbm", sigma_annual |-> sigma, mu_annual |-> mu,
   antithetic |-> anti, spot_rate |-> 100, r_inr |-> 4, r_usd |-> 4,
   transaction_cost_bps |-> 10, n_paths |-> n, horizon_quarters |-> horizon,
   hedge |-> [forwards |-> h.forwards, options |-> h.options,
              natural |-> h.natural, tenor_months |-> 3 * horizon]]

\* the mutant: the shock does not scale with sigma
StepLogReturnUnscaled(cfg, z) ==
  (100 * cfg.mu_annual - (cfg.sigma_annual * cfg.sigma_annual) \div 2) \div 4
  + 50 * 20 * z

\* (mu - sigma^2 / 2) * dt + sigma * sqrt(dt) * Z for a quarter, basis points
StepLogReturn(cfg, z) ==
  (100 * cfg.mu_annual - (cfg.sigma_annual * cfg.sigma_annual) \div 2) \div 4
  + 50 * cfg.sigma_annual * z

\* the log return accumulated over the first t periods
RECURSIVE CumLogReturn(_, _, _)
CumLogReturn(cfg, z, t) ==
  IF t = 0 THEN 0 ELSE CumLogReturn(cfg, z, t - 1) + StepLogReturn(cfg, z[t])

\* S0 * exp(l), l in basis points
ExpRate(spot, l) ==
  spot + (spot * l) \div 10000 + (spot * l * l) \div 200000000

GbmPath(cfg, z) ==
  [t \in 1..cfg.horizon_quarters |-> ExpRate(cfg.spot_rate, CumLogReturn(cfg, z, t))]

\* the mutant: antithetic pairs are generated whole
PathCountPaired(cfg) ==
  IF cfg.antithetic THEN 2 * ((cfg.n_paths + 1) \div 2) ELSE cfg.n_paths

\* the number of paths generated
PathCount(cfg) == cfg.n_paths

\* the number of draw vectors taken from the random stream
UniqueDraws(cfg) ==
  IF cfg.antithetic THEN (PathCount(cfg) + 1) \div 2 ELSE PathCount(cfg)

\* the draws of each path: with antithetic variates path 2k-1 takes draw k
\* and path 2k its negation
PathDraws(cfg, u) ==
  [i \in 1..PathCount(cfg) |->
     IF cfg.antithetic /\ i % 2 = 0
       THEN [z |-> [t \in 1..cfg.horizon_quarters |-> 0 - u[i \div 2][t]],
             source |-> i \div 2, mirrored |-> TRUE]
     ELSE IF cfg.antithetic
       THEN [z |-> u[(i + 1) \div 2], source |-> (i + 1) \div 2, mirrored |-> FALSE]
     ELSE [z |-> u[i], source |-> i, mirrored |-> FALSE]]

SimInit ==
  /\ FrontIdle
  /\ ThemeIdle
  /\ LibIdle
  /\ OptimIdle
  /\ RiskIdle
  /\ HedgeIdle
  /\ pc = "request"
  /\ firm \in Firms
  /\ \E mu \in Drifts, sigma \in Sigmas, anti \in BOOLEAN, h \in SimHedges,
        n \in 1..MaxSimPaths, horizon \in 1..MaxHorizon :
       config = SimConfig(mu, sigma, anti, h, n, horizon)

\* PathSimulator.simulate
Simulate ==
  /\ pc = "request"
  /\ \E u \in [1..UniqueDraws(config) -> [1..config.horizon_quarters -> ZValues]] :
       LET d == PathDraws(config, u)
       IN /\ draws' = d
          /\ fx_paths' = [i \in 1..Len(d) |-> GbmPath(config, d[i].z)]
  /\ pc' = "paths"
  /\ UNCHANGED <<firm, config, hedge_pnl>>
  /\ UNCHANGED riskVars
  /\ UNCHANGED optimVars
  /\ UNCHANGED frontVars

\* the terminal-period cross-sections handed to the analyzer
CrossSection(p) ==
  [npm |-> Values(Terminal(p.npm)), roa |-> Values(Terminal(p.roa))]

\* RiskAnalyzer.analyze on the terminal period; the risk-free rate in the
\* unit of the ratios
AnalyzeTerminal ==
  /\ pc = "computed"
  /\ risk_metrics' = analyze(CrossSection(profitability), 100 * config.r_inr)
  /\ pc' = "analyzed"
  /\ UNCHANGED <<firm, config, profitability>>
  /\ UNCHANGED hedgeVars
  /\ UNCHANGED optimVars
  /\ UNCHANGED frontVars

SimNext ==
  \/ Simulate
  \/ PriceAndPnl
  \/ Compute
  \/ AnalyzeTerminal

SimSpec == SimInit /\ [][SimNext]_vars

Degenerate == config.sigma_annual = 0

\* every path is S_t = S0 * exp(mu * t)
PathsOnDriftCurve ==
  \A i \in 1..Len(fx_paths) : \A t \in 1..config.horizon_quarters :
    fx_paths[i][t] = ExpRate(config.spot_rate, 25 * config.mu_annual * t)

SentinelRatios ==
  /\ risk_metrics.risk_adjusted.npm_sharpe = Sentinel
  /\ risk_metrics.risk_adjusted.npm_sortino = Sentinel
  /\ risk_metrics.risk_adjusted.roa_sharpe = Sentinel
  /\ risk_metrics.risk_adjusted.roa_sortino = Sentinel

Unpaired(i) ==
  \A j \in 1..Len(draws) : j # i => draws[j].source # draws[i].source

\* C15: simulate returns exactly the requested N paths; with antithetic
\* variates the paths come in pairs (Z, -Z) of one draw each, and when N is
\* odd exactly one path uses a plain unpaired draw.
C15_AntitheticPreservesCount ==
  pc # "request" =>
    /\ Len(fx_paths) = config.n_paths
    /\ Len(draws) = config.n_paths
    /\ \A i \in 1..Len(fx_paths) : Len(fx_paths[i]) = config.horizon_quarters
    /\ config.antithetic =>
         /\ \A k \in 1..(config.n_paths \div 2) :
              /\ draws[2 * k].source = draws[2 * k - 1].source
              /\ \A t \in 1..config.horizon_quarters :
                   draws[2 * k].z[t] = 0 - draws[2 * k - 1].z[t]
         /\ Cardinality({i \in 1..Len(draws) : Unpaired(i)}) = config.n_paths % 2
         /\ config.n_paths % 2 = 1 => ~draws[config.n_paths].mirrored

\* an odd number of paths, more than one, simulated with antithetic
\* variates at a positive volatility
C15_Witness ==
  /\ pc = "paths"
  /\ config.antithetic
  /\ config.n_paths % 2 = 1
  /\ config.n_paths > 1
  /\ config.sigma_annual > 0
  /\ fx_paths[1] # fx_paths[2]
  /\ Unpaired(config.n_paths)

\* the request with another allocation, everything else and the seed alike
WithAllocation(cfg, h) ==
  [cfg EXCEPT !.hedge = [forwards |-> h.forwards, options |-> h.options,
                         natural |-> h.natural,
                         tenor_months |-> cfg.hedge.tenor_months]]

\* CVaR95 of the terminal NPM the pipeline yields on a path set
PipelineCVaR95(f, cfg, paths) ==
  CVaR100(CrossSection(compute(f, cfg, paths, price_and_pnl(f, cfg, paths))).npm, 95)

HedgedCVaR95 == PipelineCVaR95(firm, WithAllocation(config, HalfForwards), fx_paths)
UnhedgedCVaR95 == PipelineCVaR95(firm, WithAllocation(config, NoHedge), fx_paths)

\* the rate a path ends at
TerminalRate(i) == fx_paths[i][config.horizon_quarters]

\* some path ends at least a tenth below the spot rate, and no path ends
\* farther above the spot rate than that one ends below it
SharpDepreciation ==
  \E i \in 1..Len(fx_paths) :
    /\ 10 * TerminalRate(i) <= 9 * config.spot_rate
    /\ \A j \in 1..Len(fx_paths) :
         TerminalRate(j) - config.spot_rate <= config.spot_rate - TerminalRate(i)

\* the point of the page's frontier at a hedge ratio, the row of its table
FrontierAt(h) ==
  CHOOSE pt \in {generateEfficientFrontier[k] : k \in 1..Len(generateEfficientFrontier)} :
    pt.hedge_ratio = h
StrategyAt(h) ==
  CHOOSE row \in {strategies[k] : k \in 1..Len(strategies)} : row.ratio = h

\* the Optimizer page's figures at 50% lie below those at 0%
PageHedgingReducesTailRisk ==
  /\ FrontierAt(50).cvar_95 < FrontierAt(0).cvar_95
  /\ StrategyAt(50).cvar < StrategyAt(0).cvar

MaxReloads == 2

\* what the hook itself leaves in localStorage, or nothing yet
StoredThemes == {NoTheme, "dark", "light"}

\* isDark ? 'dark' : 'light'
ThemeOf(dark) == IF dark THEN "dark" ELSE "light"

\* the mutant: the system preference consulted before the stored value
InitialModeSystemFirst(stored, prefers) ==
  IF prefers THEN TRUE ELSE stored = "dark"

\* the useState initialiser
InitialMode(stored, prefers) ==
  IF stored # NoTheme THEN stored = "dark" ELSE prefers

\* the mutant: the class added, never removed
ApplyClassAddOnly(dark, classes) ==
  IF dark THEN classes \cup {"dark"} ELSE classes

\* classList.add('dark') or classList.remove('dark')
ApplyClass(dark, classes) ==
  IF dark THEN classes \cup {"dark"} ELSE classes \ {"dark"}

\* the page loads for the first time in this model: an earlier session may
\* have left a theme behind
ThemeInit ==
  /\ FrontIdle
  /\ CoreIdle
  /\ LibIdle
  /\ mounted = FALSE
  /\ isDark = FALSE
  /\ rendered = FALSE
  /\ themeEffect = FALSE
  /\ storedTheme \in StoredThemes
  /\ classList = {}
  /\ prefersDark \in BOOLEAN
  /\ chosen = "none"
  /\ reloads = 0

themeFrame == <<pageVars, coreVars, libVars>>

\* the hook mounts: useState initialiser, first render, effect scheduled
Mount ==
  /\ ~mounted
  /\ mounted' = TRUE
  /\ isDark' = InitialMode(storedTheme, prefersDark)
  /\ rendered' = isDark'
  /\ themeEffect' = TRUE
  /\ UNCHANGED <<storedTheme, classList, prefersDark, chosen, reloads>>
  /\ UNCHANGED themeFrame

\* the effect on [isDark], with the isDark of the render that scheduled it
RunThemeEffect ==
  /\ mounted
  /\ themeEffect
  /\ classList' = ApplyClass(rendered, classList)
  /\ storedTheme' = ThemeOf(rendered)
  /\ themeEffect' = FALSE
  /\ UNCHANGED <<mounted, isDark, rendered, prefersDark, chosen, reloads>>
  /\ UNCHANGED themeFrame

\* toggle = () => setIsDark(!isDark), isDark being the last render's
Toggle ==
  /\ mounted
  /\ isDark' = ~rendered
  /\ chosen' = ThemeOf(isDark')
  /\ reloads' = 0
  /\ UNCHANGED <<mounted, rendered, themeEffect, storedTheme, classList, prefersDark>>
  /\ UNCHANGED themeFrame

SetIsDark(v) ==
  /\ mounted
  /\ isDark' = v
  /\ chosen' = ThemeOf(v)
  /\ reloads' = 0
  /\ UNCHANGED <<mounted, rendered, themeEffect, storedTheme, classList, prefersDark>>
  /\ UNCHANGED themeFrame

\* a state change re-renders; React flushes the pending effect before it
\* renders again, and schedules the effect because isDark changed
Render ==
  /\ mounted
  /\ ~themeEffect
  /\ isDark # rendered
  /\ rendered' = isDark
  /\ themeEffect' = TRUE
  /\ UNCHANGED <<mounted, isDark, storedTheme, classList, prefersDark, chosen, reloads>>
  /\ UNCHANGED themeFrame

\* the hook has nothing left to do
Settled == mounted /\ ~themeEffect /\ rendered = isDark

\* the user reloads the page: component state and the DOM are rebuilt,
\* localStorage stays.  The render and the effect of an earlier event are
\* queued ahead of the event that reloads.
Reload ==
  /\ ~mounted \/ Settled
  /\ reloads < MaxReloads
  /\ mounted' = FALSE
  /\ isDark' = FALSE
  /\ rendered' = FALSE
  /\ themeEffect' = FALSE
  /\ classList' = {}
  /\ reloads' = reloads + 1
  /\ UNCHANGED <<storedTheme, prefersDark, chosen>>
  /\ UNCHANGED themeFrame

\* the system colour scheme changes
SystemChange ==
  /\ prefersDark' = ~prefersDark
  /\ UNCHANGED <<mounted, isDark, rendered, themeEffect, storedTheme, classList,
                 chosen, reloads>>
  /\ UNCHANGED themeFrame

ThemeNext ==
  \/ Mount
  \/ RunThemeEffect
  \/ Toggle
  \/ \E v \in BOOLEAN : SetIsDark(v)
  \/ Render
  \/ Reload
  \/ SystemChange

ThemeSpec == ThemeInit /\ [][ThemeNext]_vars

\* C19: on a mounted hook, after any sequence of toggle() and setIsDark(v)
\* calls, once the render and the effect have run, localStorage['theme'] is
\* 'dark' if isDark and 'light' otherwise, and the <html> element carries
\* the class 'dark' exactly when isDark.
C19_DarkModeInSync ==
  Settled =>
    /\ storedTheme = ThemeOf(isDark)
    /\ ("dark" \in classList) <=> isDark

\* back in light mode after a choice of dark mode, the effect done
C19_Witness ==
  /\ Settled
  /\ chosen = "light"
  /\ ~isDark
  /\ prefersDark
  /\ storedTheme = "light"
  /\ "dark" \notin classList
  /\ reloads = 0

\* C20: on mount the hook starts from the stored theme whenever one exists,
\* dark exactly when it is 'dark', and from the system preference only when
\* nothing is stored; a mode the user chose is the mode of the hook after
\* every reload, and the stored one in between, whatever the system
\* preference.
C20_StoredThemeWins ==
  /\ [][Mount =>
         /\ storedTheme # NoTheme => (isDark' <=> storedTheme = "dark")
         /\ storedTheme = NoTheme => (isDark' <=> prefersDark)]_vars
  /\ [](mounted /\ chosen # "none" => ThemeOf(isDark) = chosen)
  /\ [](~mounted /\ chosen # "none" => storedTheme = chosen)

\* the chosen mode back after two reloads, against the system preference
C20_Witness ==
  /\ mounted
  /\ reloads = MaxReloads
  /\ chosen # "none"
  /\ ThemeOf(isDark) = chosen
  /\ prefersDark # isDark

(***************************************************************************)
(* components/MetricCard.tsx: the change badge and the trend icon.  A       *)
(* change is a number of hundredths of a percent, or undefined.             *)
(***************************************************************************)
MaxChange == 15

ChangeValues == (0 - MaxChange)..MaxChange \cup {-150, 230}
ChangeProps == {Undefined} \cup {Number(c) : c \in ChangeValues}
\* the trend prop, "omitted" where the caller passes none
TrendProps == {"up", "down", "neutral", "omitted"}

Abs(x) == IF x < 0 THEN 0 - x ELSE x

\* Number.prototype.toFixed on hundredths: the sign, then the magnitude
\* rounded to the digits kept
ToFixed(c, digits) ==
  [negative |-> c < 0,
   scaled |-> IF digits = 2 THEN Abs(c) ELSE (Abs(c) + 5) \div 10,
   digits |-> digits]

\* the mutant: two decimal places, as toFixed(2)
BadgeTextTwoDecimals(c) ==
  [plus |-> c > 0, number |-> ToFixed(c, 2), percent |-> TRUE]

\* {change > 0 ? '+' : ''}{change.toFixed(1)}%
BadgeText(c) ==
  [plus |-> c > 0, number |-> ToFixed(c, 1), percent |-> TRUE]

\* the mutant: the icon follows the sign of the change
getTrendIconBySign(trend, change) ==
  IF change.defined /\ change.value > 0 THEN "Trend up"
  ELSE IF change.defined /\ change.value < 0 THEN "Trend down"
  ELSE "Trend neutral"

\* the aria-label of the icon getTrendIcon returns; trend defaults to
\* 'neutral'
getTrendIcon(trend, change) ==
  IF trend = "up" THEN "Trend up"
  ELSE IF trend = "down" THEN "Trend down"
  ELSE "Trend neutral"

\* what the component renders: the icons in the header, the badge if any
MetricCard(props) ==
  [icons |-> << getTrendIcon(props.trend, props.change) >>,
   badge |-> IF props.change # Undefined
               THEN [shown |-> TRUE, text |-> BadgeText(props.change.value)]
               ELSE [shown |-> FALSE]]

CardInit ==
  /\ FrontIdle
  /\ ThemeIdle
  /\ CoreIdle
  /\ LibIdle

cardFrame == <<pageVars, themeVars, coreVars, plotVars, hookVars, scriptVars>>

\* the parent renders the card with these props
RenderCard(c, t) ==
  /\ cardProps' = [change |-> c, trend |-> t]
  /\ cardView' = MetricCard(cardProps')
  /\ UNCHANGED cardFrame

CardNext == \E c \in ChangeProps, t \in TrendProps : RenderCard(c, t)

CardSpec == CardInit /\ [][CardNext]_vars

\* C21: the card renders the change badge exactly when the change prop is
\* provided; the badge text is the change to one decimal place (the
\* nearest tenth) followed by '%', with '+' in front exactly when the
\* change is positive, a '-' of its own when negative, no sign at zero.
C21_ChangeBadge ==
  cardProps # None =>
    /\ cardView.badge.shown <=> cardProps.change # Undefined
    /\ cardView.badge.shown =>
         LET c == cardProps.change.value
             text == cardView.badge.text
         IN /\ text.percent
            /\ text.number.digits = 1
            /\ Abs(10 * text.number.scaled - Abs(c)) <= 5
            /\ text.plus <=> c > 0
            /\ text.number.negative <=> c < 0
            /\ c = 0 => ~text.plus /\ ~text.number.negative /\ text.number.scaled = 0

\* a card with change -1.5 and the badge "-1.5%"
C21_Witness ==
  /\ cardProps # None
  /\ cardProps.change = Number(-150)
  /\ cardView.badge.shown
  /\ cardView.badge.text.number = [negative |-> TRUE, scaled |-> 15, digits |-> 1]
  /\ ~cardView.badge.text.plus

\* C22: the card renders exactly one trend icon, labelled 'Trend up' for
\* trend 'up', 'Trend down' for 'down' and 'Trend neutral' otherwise, the
\* omitted trend included, whatever the change prop.
C22_OneTrendIcon ==
  cardProps # None =>
    /\ Len(cardView.icons) = 1
    /\ cardView.icons[1] =
         (CASE cardProps.trend = "up" -> "Trend up"
            [] cardProps.trend = "down" -> "Trend down"
            [] OTHER -> "Trend neutral")

\* no trend passed with a positive change: the neutral icon
C22_Witness ==
  /\ cardProps # None
  /\ cardProps.trend = "omitted"
  /\ cardProps.change = Number(230)
  /\ cardView.icons = << "Trend neutral" >>

(***************************************************************************)
(* The pages' simulated loads and runs: timers, loading states and what is  *)
(* on screen.  Checked under Spec, progress under FairSpec.                 *)
(***************************************************************************)
\* the pending timers of the mounted instance of a page
LiveTimers(p) ==
  {i \in 1..Len(timers) : timers[i].page = p /\ timers[i].live}

\* a timer's callback runs
TimerFire ==
  \E i \in 1..MaxTimers :
    TimerFireStale(i) \/ DistributionsLoaded(i) \/ PageLoaded(i) \/ OptimizationDone(i)

\* the browser runs a mounted page's effect, and a timer whose delay has
\* elapsed
FairSpec == Spec /\ WF_vars(MountEffect) /\ WF_vars(TimerFire)

\* C23: on the Optimizer page at most one optimization is pending: while
\* loading is true no run can be started, a pending run is exactly what
\* loading stands for, and the callback of a run stores the result, ends
\* the run and returns loading to false in one step.
C23_SingleRunPending ==
  /\ [](Cardinality(LiveTimers("optimizer")) <= 1)
  /\ [](loading["optimizer"] <=> LiveTimers("optimizer") # {})
  /\ [](loading["optimizer"] <=> pendingRun.started)
  /\ [][(\E f \in Firms : runOptimization(f)) => ~loading["optimizer"]]_vars
  /\ [][(\E i \in 1..MaxTimers : OptimizationDone(i)) =>
          /\ loading["optimizer"]
          /\ optimizationResult'.set
          /\ resultRun' = pendingRun
          /\ ~loading'["optimizer"]
          /\ LiveTimers("optimizer")' = {}]_vars

\* a second run pending after a first one has completed
C23_Witness ==
  /\ route = "optimizer"
  /\ loading["optimizer"]
  /\ optimizationResult.set
  /\ pendingRun.started
  /\ Cardinality(LiveTimers("optimizer")) = 1

\* C24: every page that simulates loading leaves its loading state: a
\* loading page has a pending timer of its own, and loading is followed by
\* not loading, where the content replaces the spinner.
C24_LoadingEnds ==
  /\ [](\A p \in LoadingPages :
          loading[p] => (route = p /\ LiveTimers(p) # {}))
  /\ \A p \in LoadingPages : loading[p] ~> ~loading[p]

\* the Optimizer back from a run, the content on screen
C24_Witness ==
  /\ route = "optimizer"
  /\ ~loading["optimizer"]
  /\ optimizationResult.set
  /\ LiveTimers("optimizer") = {}

\* C25: whenever the Optimizer page displays an optimal hedge strategy, the
\* result was computed for the CVaR target the slider shows.
C25_ResultForCurrentTarget ==
  (route = "optimizer" /\ ~loading["optimizer"] /\ optimizationResult.set)
    => resultRun.cvar_target = cvarTarget

\* C26: every render of the Distributions page that shows the non-loading
\* view has a non-empty array for the selected metric.
C26_NeverEmptyData ==
  (route = "distributions" /\ ~loading["distributions"])
    => Len(currentData) > 0

\* C27: no timer outlives its component: every pending timer belongs to the
\* mounted instance of its page.
C27_NoTimerOutlivesComponent ==
  \A i \in 1..Len(timers) : timers[i].live /\ timers[i].page = route

(***************************************************************************)
(* lib/PlotlyTheme.ts: applyPlotlyTheme.  A layout is a function from the   *)
(* paths it sets to their values; a path is <<key, sub-key, sub-sub-key>>,  *)
(* with "" where the value sits higher up.                                  *)
(***************************************************************************)
\* plotlyTheme.layout and plotlyThemeDark.layout, a part of each
ThemePaths ==
  { <<"plot_bgcolor", "", "">>,
    <<"font", "size", "">>, <<"font", "color", "">>,
    <<"margin", "t", "">>, <<"margin", "l", "">>,
    <<"xaxis", "gridcolor", "">>, <<"xaxis", "tickfont", "size">>,
    <<"xaxis", "tickfont", "color">>,
    <<"yaxis", "gridcolor", "">>,
    <<"legend", "bgcolor", "">>, <<"legend", "borderwidth", "">>,
    <<"hoverlabel", "bgcolor", "">> }

plotlyTheme == [p \in ThemePaths |-> "light"]
plotlyThemeDark == [p \in ThemePaths |-> "dark"]

\* what a caller may set
CustomPaths ==
  { <<"title", "", "">>, <<"plot_bgcolor", "", "">>,
    <<"font", "size", "">>, <<"margin", "t", "">>,
    <<"xaxis", "title", "">>, <<"xaxis", "tickfont", "size">>,
    <<"legend", "bgcolor", "">>, <<"hoverlabel", "bgcolor", "">> }

CustomLayouts == UNION {[ps -> {"custom"}] : ps \in SUBSET CustomPaths}

\* the second argument: true, false or left out
DarkArgs == {"true", "false", "omitted"}

\* the keys an object has at a depth under a prefix
HasKey(layout, k) == \E p \in DOMAIN layout : p[1] = k
HasSubKey(layout, k, sub) == \E p \in DOMAIN layout : p[1] = k /\ p[2] = sub

\* {...a, ...b}: each key of b replaces the whole value a has for it
Spread(a, b) ==
  LET kept == {p \in DOMAIN a : ~HasKey(b, p[1])}
  IN [p \in kept \cup DOMAIN b |-> IF p \in DOMAIN b THEN b[p] ELSE a[p]]

\* k: {...a.k, ...b.k}: each sub-key of b.k replaces the whole value a.k
\* has for it
SpreadUnder(a, b, k) ==
  LET under(l) == {p \in DOMAIN l : p[1] = k}
      kept == {p \in under(a) : ~HasSubKey(b, k, p[2])}
  IN [p \in kept \cup under(b) |-> IF p \in DOMAIN b THEN b[p] ELSE a[p]]

MergedKeys == {"xaxis", "yaxis", "legend"}

applyPlotlyTheme(customLayout, dark) ==
  LET theme == IF dark = "true" THEN plotlyThemeDark ELSE plotlyTheme
      top == Spread(theme, customLayout)
      flat == {p \in DOMAIN top : p[1] \notin MergedKeys}
      merged == UNION {DOMAIN SpreadUnder(theme, customLayout, k) : k \in MergedKeys}
  IN [p \in flat \cup merged |->
        IF p \in flat THEN top[p] ELSE SpreadUnder(theme, customLayout, p[1])[p]]

PlotInit ==
  /\ FrontIdle
  /\ ThemeIdle
  /\ CoreIdle
  /\ LibIdle

plotFrame == <<pageVars, themeVars, coreVars, cardVars, hookVars, scriptVars>>

\* a chart calls applyPlotlyTheme(customLayout, isDark)
ApplyTheme(l, d) ==
  /\ plotArgs' = [customLayout |-> l, isDark |-> d]
  /\ plotLayout' = applyPlotlyTheme(l, d)
  /\ UNCHANGED plotFrame

PlotNext == \E l \in CustomLayouts, d \in DarkArgs : ApplyTheme(l, d)

PlotSpec == PlotInit /\ [][PlotNext]_vars

\* the theme the call selects
SelectedTheme == IF plotArgs.isDark = "true" THEN plotlyThemeDark ELSE plotlyTheme

\* C29: every value customLayout sets appears unchanged in the result, and
\* every default of the selected theme that customLayout does not set is
\* retained, the sub-keys of nested objects included.
C29_MergeKeepsDefaults ==
  plotArgs # None =>
    /\ \A p \in DOMAIN plotArgs.customLayout :
         p \in DOMAIN plotLayout /\ plotLayout[p] = plotArgs.customLayout[p]
    /\ \A p \in DOMAIN SelectedTheme \ DOMAIN plotArgs.customLayout :
         p \in DOMAIN plotLayout /\ plotLayout[p] = SelectedTheme[p]

(***************************************************************************)
(* hooks/useDarkMode.ts in several mounted components: each call of the     *)
(* hook has a useState of its own; localStorage and the <html> class list   *)
(* are shared.                                                              *)
(***************************************************************************)
NumHooks == 2

\* the components using the hook: Layout's header toggle, then the charts
HookIds == 1..NumHooks

Unmounted == [mounted |-> FALSE, isDark |-> FALSE, rendered |-> FALSE, effect |-> FALSE]

HooksInit ==
  /\ FrontIdle
  /\ CoreIdle
  /\ CardIdle
  /\ PlotIdle
  /\ ScriptIdle
  /\ mounted = FALSE
  /\ isDark = FALSE
  /\ rendered = FALSE
  /\ themeEffect = FALSE
  /\ chosen = "none"
  /\ reloads = 0
  /\ storedTheme \in StoredThemes
  /\ classList = {}
  /\ prefersDark \in BOOLEAN
  /\ hooks = [h \in HookIds |-> Unmounted]

hooksFrame == <<pageVars, coreVars, cardVars, plotVars, scriptVars, mounted,
                isDark, rendered, themeEffect, chosen, reloads, prefersDark>>

\* a component mounts, the effects of earlier renders done: its useState
\* initialiser reads the shared storage
HookMount(h) ==
  /\ ~hooks[h].mounted
  /\ \A k \in HookIds : ~hooks[k].effect
  /\ LET dark == InitialMode(storedTheme, prefersDark)
     IN hooks' = [hooks EXCEPT ![h] = [mounted |-> TRUE, isDark |-> dark,
                                       rendered |-> dark, effect |-> TRUE]]
  /\ UNCHANGED <<storedTheme, classList>>
  /\ UNCHANGED hooksFrame

\* a chart's page is left
HookUnmount(h) ==
  /\ hooks[h].mounted
  /\ hooks' = [hooks EXCEPT ![h] = Unmounted]
  /\ UNCHANGED <<storedTheme, classList>>
  /\ UNCHANGED hooksFrame

\* the effect of one instance writes the shared class list and storage
HookEffect(h) ==
  /\ hooks[h].mounted
  /\ hooks[h].effect
  /\ classList' = ApplyClass(hooks[h].rendered, classList)
  /\ storedTheme' = ThemeOf(hooks[h].rendered)
  /\ hooks' = [hooks EXCEPT ![h].effect = FALSE]
  /\ UNCHANGED hooksFrame

\* toggle() of one instance: setIsDark of that instance alone
HookToggle(h) ==
  /\ hooks[h].mounted
  /\ hooks' = [hooks EXCEPT ![h].isDark = ~hooks[h].rendered]
  /\ UNCHANGED <<storedTheme, classList>>
  /\ UNCHANGED hooksFrame

HookSetIsDark(h, v) ==
  /\ hooks[h].mounted
  /\ hooks' = [hooks EXCEPT ![h].isDark = v]
  /\ UNCHANGED <<storedTheme, classList>>
  /\ UNCHANGED hooksFrame

\* the component whose state changed re-renders; React runs every pending
\* effect before it renders again
HookRender(h) ==
  /\ hooks[h].mounted
  /\ \A k \in HookIds : ~hooks[k].effect
  /\ hooks[h].isDark # hooks[h].rendered
  /\ hooks' = [hooks EXCEPT ![h].rendered = hooks[h].isDark, ![h].effect = TRUE]
  /\ UNCHANGED <<storedTheme, classList>>
  /\ UNCHANGED hooksFrame

HooksNext ==
  \E h \in HookIds :
    \/ HookMount(h)
    \/ HookUnmount(h)
    \/ HookEffect(h)
    \/ HookToggle(h)
    \/ \E v \in BOOLEAN : HookSetIsDark(h, v)
    \/ HookRender(h)

HooksSpec == HooksInit /\ [][HooksNext]_vars

\* no instance has a render or an effect left to run
AllSettled ==
  \A h \in HookIds :
    hooks[h].mounted => (~hooks[h].effect /\ hooks[h].rendered = hooks[h].isDark)

\* C28: with several components using the hook, once the renders and
\* effects that follow a toggle() or setIsDark call have run, all of them
\* report the same isDark, equal to the stored theme and to the presence
\* of the class 'dark'.
C28_AllInstancesAgree ==
  AllSettled =>
    \A h \in HookIds :
      hooks[h].mounted =>
        /\ storedTheme = ThemeOf(hooks[h].isDark)
        /\ ("dark" \in classList) <=> hooks[h].isDark

(***************************************************************************)
(* run.sh (unnamed/part_011): the set-up checks, the trap, the two server   *)
(* starts and the wait.  The shell acts on a signal between two commands.   *)
(***************************************************************************)
Signals == {"SIGINT", "SIGTERM"}
Setups == [venv : BOOLEAN, node_modules : BOOLEAN]

ScriptInit ==
  /\ FrontIdle
  /\ ThemeIdle
  /\ CoreIdle
  /\ CardIdle
  /\ PlotIdle
  /\ HooksIdle
  /\ scriptPc = "check_backend"
  /\ setup \in Setups
  /\ trapSet = FALSE
  /\ pendingSignal = "none"
  /\ backend = "none"
  /\ frontend = "none"
  /\ exitCode = -1
  /\ BACKEND_PID = FALSE
  /\ FRONTEND_PID = FALSE

scriptFrame == <<pageVars, themeVars, coreVars, cardVars, plotVars, hookVars>>

Running == scriptPc # "exited"

\* the script runs its next command: none is pending a signal
Step(from, to) ==
  /\ scriptPc = from
  /\ pendingSignal = "none"
  /\ scriptPc' = to
  /\ exitCode' = IF to # "exited" THEN -1 ELSE IF from = "wait" THEN 0 ELSE 1
  /\ UNCHANGED <<setup, pendingSignal>>
  /\ UNCHANGED scriptFrame

\* if [ ! -d "backend/venv" ]; then ... exit 1
CheckBackend ==
  /\ Step("check_backend", IF setup.venv THEN "check_frontend" ELSE "exited")
  /\ UNCHANGED <<trapSet, backend, frontend, BACKEND_PID, FRONTEND_PID>>

\* if [ ! -d "frontend/node_modules" ]; then ... exit 1
CheckFrontend ==
  /\ Step("check_frontend", IF setup.node_modules THEN "trap" ELSE "exited")
  /\ UNCHANGED <<trapSet, backend, frontend, BACKEND_PID, FRONTEND_PID>>

\* trap cleanup SIGINT SIGTERM
SetTrap ==
  /\ Step("trap", "cd_backend")
  /\ trapSet' = TRUE
  /\ UNCHANGED <<backend, frontend, BACKEND_PID, FRONTEND_PID>>

\* python main.py > ../backend.log 2>&1 &
StartBackend ==
  /\ Step("start_backend", "set_backend_pid")
  /\ backend' = "running"
  /\ UNCHANGED <<trapSet, frontend, BACKEND_PID, FRONTEND_PID>>

\* BACKEND_PID=$!
SetBackendPid ==
  /\ Step("set_backend_pid", "cd_up_backend")
  /\ BACKEND_PID' = TRUE
  /\ UNCHANGED <<trapSet, backend, frontend, FRONTEND_PID>>

\* the commands that touch neither the trap, the servers nor the
\* variables: cd, source, sleep 2 and the echo lines, each with its successor
NextCommand ==
  [c \in {"cd_backend", "activate", "cd_up_backend", "sleep", "cd_frontend",
          "cd_up_frontend", "banner"} |->
     CASE c = "cd_backend" -> "activate"
       [] c = "activate" -> "start_backend"
       [] c = "cd_up_backend" -> "sleep"
       [] c = "sleep" -> "cd_frontend"
       [] c = "cd_frontend" -> "start_frontend"
       [] c = "cd_up_frontend" -> "banner"
       [] c = "banner" -> "wait"]

Plain ==
  /\ \E c \in DOMAIN NextCommand : Step(c, NextCommand[c])
  /\ UNCHANGED <<trapSet, backend, frontend, BACKEND_PID, FRONTEND_PID>>

\* npm run dev > ../frontend.log 2>&1 &
StartFrontend ==
  /\ Step("start_frontend", "set_frontend_pid")
  /\ frontend' = "running"
  /\ UNCHANGED <<trapSet, backend, BACKEND_PID, FRONTEND_PID>>

\* FRONTEND_PID=$!
SetFrontendPid ==
  /\ Step("set_frontend_pid", "cd_up_frontend")
  /\ FRONTEND_PID' = TRUE
  /\ UNCHANGED <<trapSet, backend, frontend, BACKEND_PID>>

\* wait: returns once both background jobs have ended
Wait ==
  /\ backend # "running"
  /\ frontend # "running"
  /\ Step("wait", "exited")
  /\ UNCHANGED <<trapSet, backend, frontend, BACKEND_PID, FRONTEND_PID>>

\* a server ends by itself, the script running or not
ServerExits ==
  /\ \/ backend = "running" /\ backend' = "stopped" /\ UNCHANGED frontend
     \/ frontend = "running" /\ frontend' = "stopped" /\ UNCHANGED backend
  /\ UNCHANGED <<scriptPc, setup, trapSet, pendingSignal, exitCode, BACKEND_PID, FRONTEND_PID>>
  /\ UNCHANGED scriptFrame

\* Ctrl+C or kill: a signal reaches the script
Signal(sig) ==
  /\ Running
  /\ pendingSignal = "none"
  /\ pendingSignal' = sig
  /\ UNCHANGED <<scriptPc, setup, trapSet, backend, frontend, exitCode, BACKEND_PID, FRONTEND_PID>>
  /\ UNCHANGED scriptFrame

\* no trap yet: the signal ends the script
DefaultAction ==
  /\ Running
  /\ pendingSignal # "none"
  /\ ~trapSet
  /\ scriptPc' = "exited"
  /\ exitCode' = IF pendingSignal = "SIGINT" THEN 130 ELSE 143
  /\ pendingSignal' = "none"
  /\ UNCHANGED <<setup, trapSet, backend, frontend, BACKEND_PID, FRONTEND_PID>>
  /\ UNCHANGED scriptFrame

\* kill $PID: the process the variable names is signalled; an empty
\* variable names none
Killed(state, pidSet) ==
  IF pidSet /\ state = "running" THEN "killed" ELSE state

\* cleanup: kill $BACKEND_PID $FRONTEND_PID 2>/dev/null; exit 0
cleanup ==
  /\ Running
  /\ pendingSignal # "none"
  /\ trapSet
  /\ backend' = Killed(backend, BACKEND_PID)
  /\ frontend' = Killed(frontend, FRONTEND_PID)
  /\ scriptPc' = "exited"
  /\ exitCode' = 0
  /\ pendingSignal' = "none"
  /\ UNCHANGED <<setup, trapSet, BACKEND_PID, FRONTEND_PID>>
  /\ UNCHANGED scriptFrame

ScriptNext ==
  \/ CheckBackend
  \/ CheckFrontend
  \/ SetTrap
  \/ StartBackend
  \/ SetBackendPid
  \/ Plain
  \/ StartFrontend
  \/ SetFrontendPid
  \/ Wait
  \/ ServerExits
  \/ \E sig \in Signals : Signal(sig)
  \/ DefaultAction
  \/ cleanup

ScriptSpec == ScriptInit /\ [][ScriptNext]_vars

\* C30: whenever the script has exited, after a signal at any point or by
\* itself, no server process it started is running.
C30_NoServerLeftRunning ==
  scriptPc = "exited" => (backend # "running" /\ frontend # "running")

====
